---- MODULE Spec2Model ----
(***************************************************************************)
(* A model of nitrofs.c: the NitroFS name-table decoder, the entry tree   *)
(* it builds at mount time, and the FUSE request handlers that read it.   *)
(*                                                                         *)
(* The image is modelled byte for byte.  nds_file names one image of the   *)
(* finite family ImageDescs below; nds_mapping is the content of the file. *)
(* Pointers into the entry heap are indices into the sequence tree, with   *)
(* 0 for NULL.  A read of the mapping past its end is undefined: it either *)
(* faults (SIGSEGV) or yields the zero padding of the last mapped page.    *)
(***************************************************************************)
EXTENDS Integers, Sequences, FiniteSets, TLC

\* ------------------------------------------------------------ constants

FNT_OFFSET == 64
FNT_LENGTH == 68
FAT_OFFSET == 72
FAT_LENGTH == 76
NITRO_ROOT == 61440
NITRO_DIRMASK == 4095

NITRO_FILE_TYPE == 0
NITRO_DIR_TYPE == 1

\* errno values returned negated by the handlers
ENOENT == 2
EACCES == 13
EISDIR == 21
EINVAL == 22
EROFS == 30

\* sizeof(fnt_main_entry_t) and sizeof(fat_entry_t)
FntEntrySize == 8
FatEntrySize == 8

\* ------------------------------------------------------------ bounds

\* Depth of nested nitro_build_subdir activations the stack can hold.
MaxDepth == 5
\* Largest size argument of a read request.
MaxReadLen == 4
\* Largest offset argument of a read request.
MaxReadOff == 4
\* Largest number of entries the readdir filler accepts in one call.
MaxFill == 5

\* ------------------------------------------------------------ arithmetic

\* uint16_t and uint32_t arithmetic.  TLC's integers are 32-bit signed, so
\* 2^32 is written as a product that is evaluated only when a difference wraps.
U16(x) == x % 65536
U32(x) == IF x >= 0 THEN x ELSE x + 65536 * 65536

\* Every image is far shorter than 2^30 bytes: a 32-bit field of 2^30 or more is
\* kept as Far, an offset past the mapping.
Far == 2 ^ 30

Max(a, b) == IF a >= b THEN a ELSE b
Min(a, b) == IF a <= b THEN a ELSE b

RECURSIVE BitOr(_, _)
BitOr(a, b) ==
  IF a = 0 THEN b
  ELSE IF b = 0 THEN a
  ELSE (IF (a % 2 = 1) \/ (b % 2 = 1) THEN 1 ELSE 0) + 2 * BitOr(a \div 2, b \div 2)

RECURSIVE Concat(_)
Concat(ss) == IF ss = <<>> THEN <<>> ELSE Head(ss) \o Concat(Tail(ss))

RECURSIVE SumSeq(_)
SumSeq(s) == IF s = <<>> THEN 0 ELSE Head(s) + SumSeq(Tail(s))

\* ------------------------------------------------------------ test images

\* entry names "a", "b", "c", "ab"
NameA == << 97 >>
NameB == << 98 >>
NameC == << 99 >>
NameAB == << 97, 98 >>

LE16(v) == << v % 256, (v \div 256) % 256 >>
LE32(v) == << v % 256, (v \div 256) % 256, (v \div 65536) % 256, (v \div 16777216) % 256 >>

F(n) == [d |-> FALSE, name |-> n, id |-> 0]
D(n, i) == [d |-> TRUE, name |-> n, id |-> i]

\* One subentry of a name-table stream, as the format lays it out.
EncSub(s) ==
  IF s.d THEN << 128 + Len(s.name) >> \o s.name \o LE16(s.id)
  ELSE << Len(s.name) >> \o s.name

EncStream(st) == Concat([i \in 1..Len(st) |-> EncSub(st[i])]) \o << 0 >>

\* Directory IDs used by the images.
DirId1 == NITRO_ROOT + 1
DirId2 == NITRO_ROOT + 2
\* index 3: past the three main records, inside the name table (in a stream)
DirIdInStream == NITRO_ROOT + 3
\* index 8: past the name table, inside the mapping
DirIdPastTable == NITRO_ROOT + 8
\* index 4095: past the mapping
DirIdPastMap == NITRO_ROOT + NITRO_DIRMASK

RootStreams ==
  { << >>,
    << F(NameA) >>,
    << F(NameB), F(NameA), F(NameC) >>,
    << D(NameA, DirId1), F(NameC) >>,
    << F(NameB), D(NameA, DirId1), F(NameC) >>,
    << D(NameA, DirId1), D(NameB, DirId2) >>,
    << F(NameAB), D(NameB, DirId2) >> }

RootStreamsBad ==
  { << D(NameA, NITRO_ROOT) >>,
    << D(NameA, DirIdInStream) >>,
    << F(NameB), D(NameA, DirIdPastTable) >>,
    << D(NameA, DirIdPastMap), F(NameC) >> }

D1Streams ==
  { << >>,
    << F(NameC) >>,
    << F(NameA), F(NameB) >>,
    << D(NameB, DirId2) >>,
    << F(NameC), D(NameB, DirId2), F(NameA) >> }

D1StreamsBad ==
  { << D(NameC, NITRO_ROOT) >>,
    << D(NameB, DirId1) >> }

D2Streams == { << >>, << F(NameC) >> }

D2StreamsBad == { << D(NameA, DirId1) >> }

\* first sequential file IDs of the three main records
RootNextIds == { 0, 2 }
D1NextIds == { 0, 3 }
D2NextIds == { 5 }

MkDesc(r, s1, s2, n0, n1, n2) ==
  [root |-> r, d1 |-> s1, d2 |-> s2, n0 |-> n0, n1 |-> n1, n2 |-> n2, fatbad |-> FALSE]

GoodDescs ==
  { MkDesc(r, s1, s2, n0, n1, n2) :
      r \in RootStreams, s1 \in D1Streams, s2 \in D2Streams,
      n0 \in RootNextIds, n1 \in D1NextIds, n2 \in D2NextIds }

BadDescs ==
  { MkDesc(r, s1, s2, 0, 3, 5) :
      r \in RootStreams \cup RootStreamsBad,
      s1 \in D1Streams \cup D1StreamsBad,
      s2 \in D2Streams \cup D2StreamsBad }

\* images whose allocation table has more than 256 records: the root's files are
\* numbered from 256, those of directory 1 from 0
BigDescs ==
  { MkDesc(<< D(NameA, DirId1), F(NameC) >>, s1, << >>, 256, 0, 5) :
      s1 \in { << F(NameC) >>, << F(NameA), F(NameB) >> } }

\* images whose allocation record 0 ends past the end of the image
BadFatDescs ==
  { [MkDesc(<< F(NameA) >>, << >>, << >>, 0, 3, 5) EXCEPT !.fatbad = TRUE] }

ImageDescs == GoodDescs \cup BadDescs \cup BigDescs \cup BadFatDescs

\* --- layout of an image
NRec == Len(<< "root", "d1", "d2" >>)
DataBytes == << 201, 202, 203, 204, 205, 206, 207, 208 >>
DataLen == Len(DataBytes)
HeaderEnd == FAT_LENGTH + 4

DescStreams(d) == << d.root, d.d1, d.d2 >>
DescNextIds(d) == << d.n0, d.n1, d.n2 >>

\* offset of main record i's stream, relative to the name table
StreamOff(d, i) ==
  NRec * FntEntrySize
    + SumSeq([j \in 1..(i - 1) |-> Len(EncStream(DescStreams(d)[j]))])

FntBytes(d) ==
  Concat([i \in 1..NRec |->
            LE32(StreamOff(d, i)) \o LE16(DescNextIds(d)[i])
              \o LE16(IF i = 1 THEN NRec ELSE NITRO_ROOT)])
    \o Concat([i \in 1..NRec |-> EncStream(DescStreams(d)[i])])

DataBase(d) == HeaderEnd + Len(FntBytes(d))
FatBase(d) == DataBase(d) + DataLen

\* number of allocation records: enough for every file ID the streams use
NFat(d) == Max(d.n0, Max(d.n1, d.n2)) + 3

\* the allocation record of file k: sizes 2, 3, 0, 1, 2, 3, ...
FatStart(d, k) ==
  IF d.fatbad /\ k = 0 THEN FatBase(d) + NFat(d) * FatEntrySize - 2
  ELSE DataBase(d) + (k % 4)
FatEnd(d, k) ==
  IF d.fatbad /\ k = 0 THEN FatStart(d, k) + 4
  ELSE FatStart(d, k) + ((k + 2) % 4)

FatBytes(d) ==
  [i \in 1..(NFat(d) * FatEntrySize) |->
     LET k == (i - 1) \div FatEntrySize
         j == (i - 1) % FatEntrySize
     IN IF j < 4 THEN LE32(FatStart(d, k))[j + 1] ELSE LE32(FatEnd(d, k))[j - 3]]

EncodeImage(d) ==
  [i \in 1..FNT_OFFSET |-> 0]
    \o LE32(HeaderEnd) \o LE32(Len(FntBytes(d)))
    \o LE32(FatBase(d)) \o LE32(NFat(d) * FatEntrySize)
    \o FntBytes(d)
    \o DataBytes
    \o FatBytes(d)


\* ------------------------------------------------------------ state

VARIABLES
  nds_file,    \* the image named on the command line
  nds_mapping, \* the bytes of the mapped image
  nds_size,    \* its length
  pc,          \* where the process is: start, loaded, build, mounted,
               \* failed (EXIT_FAILURE), segfault, overflow, unmounted
  fnt_offset, fnt_length, fat_offset, fat_length,
  root,        \* pointer to the root entry (0: NULL)
  tree,        \* the heap of nitrofs_entry_t, in allocation order
  stack,       \* the activations of nitro_build_subdir, innermost last
  fh,          \* fi->fh of the open file (0: none)
  dfh,         \* fi->fh of the open directory (0: none)
  dir_off,     \* offset handed out with the last entry the filler accepted
  listing,     \* names the filler accepted since opendir
  dir_done,    \* a readdir call ran to the end of the directory
  last         \* the last request and what it returned

vars == << nds_file, nds_mapping, nds_size, pc, fnt_offset, fnt_length, fat_offset, fat_length,
           root, tree, stack, fh, dfh, dir_off, listing, dir_done, last >>

hdr == << nds_mapping, nds_size, fnt_offset, fnt_length, fat_offset, fat_length >>
fuse == << fh, dfh, dir_off, listing, dir_done, last >>

NoRequest == [op |-> "none"]

\* ------------------------------------------------------------ the mapping

\* One byte of the mapping; past the end, the page's zero padding.
Byte(a) == IF a < nds_size THEN nds_mapping[a + 1] ELSE 0

Bytes(a, n) == [i \in 1..n |-> Byte(a + i - 1)]

\* memcpy into a uint16_t / uint32_t on a little-endian machine
Read16(a) == Byte(a) + 256 * Byte(a + 1)
Read32(a) ==
  IF Byte(a + 3) >= 64 THEN Far
  ELSE Byte(a) + 256 * Byte(a + 1) + 65536 * Byte(a + 2) + 16777216 * Byte(a + 3)

ReadFntEntry(a) ==
  [offset |-> Read32(a), next_id |-> Read16(a + 4), parent_id |-> Read16(a + 6)]

ReadFatEntry(a) ==
  [start_offset |-> Read32(a), end_offset |-> Read32(a + 4)]

\* address of the main record a directory ID selects
FntEntryAddr(id) == fnt_offset + (id % (NITRO_DIRMASK + 1)) * FntEntrySize

\* address of the allocation record of a file ID
FatEntryAddr(id) == fat_offset + id * FatEntrySize

\* ------------------------------------------------------------ entries

nitro_init_dir(name, parent, id) ==
  [parent |-> parent, next |-> 0, children |-> 0, type |-> NITRO_DIR_TYPE,
   size |-> 0, links |-> 2, id |-> id, name |-> name]

nitro_init_file(name, parent, fat_entry, id) ==
  [parent |-> parent, next |-> 0, children |-> 0, type |-> NITRO_FILE_TYPE,
   size |-> U32(fat_entry.end_offset - fat_entry.start_offset),
   links |-> 2, id |-> id, name |-> name]

\* *last = next, where last is the address of a children or a next field
SetLink(t, lastp, n) ==
  IF lastp.f = "children" THEN [t EXCEPT ![lastp.e].children = n]
  ELSE [t EXCEPT ![lastp.e].next = n]

\* DirStats without the two bytes of the directory ID
DirStats_NoId(e, len) ==
  [e EXCEPT !.links = U32(e.links + 1), !.size = U32(e.size + len + 1)]

\* what the directory branch adds to the parent: one link, len + 3 bytes
DirStats(e, len) ==
  [e EXCEPT !.links = U32(e.links + 1), !.size = U32(e.size + len + 3)]

\* what the file branch adds to the parent: len + 1 bytes
FileStats(e, len) == [e EXCEPT !.size = U32(e.size + len + 1)]

\* ------------------------------------------------------------ mount

InitOn(S) ==
  /\ nds_file \in S
  /\ pc = "start"
  /\ nds_mapping = << >> /\ nds_size = 0
  /\ fnt_offset = 0 /\ fnt_length = 0 /\ fat_offset = 0 /\ fat_length = 0
  /\ root = 0
  /\ tree = << >>
  /\ stack = << >>
  /\ fh = 0 /\ dfh = 0 /\ dir_off = 0 /\ listing = << >> /\ dir_done = FALSE
  /\ last = NoRequest

\* main: map the image and copy the four header fields
Main ==
  /\ pc = "start"
  /\ nds_mapping' = EncodeImage(nds_file)
  /\ nds_size' = Len(nds_mapping')
  /\ fnt_offset' = Read32(FNT_OFFSET)'
  /\ fnt_length' = Read32(FNT_LENGTH)'
  /\ fat_offset' = Read32(FAT_OFFSET)'
  /\ fat_length' = Read32(FAT_LENGTH)'
  /\ pc' = "loaded"
  /\ UNCHANGED << nds_file, root, tree, stack, fuse >>

\* the activation of nitro_build_subdir(dir, entry), entry read from main record rec
Frame(dir, entry, rec) ==
  [dir |-> dir, last |-> [e |-> dir, f |-> "children"],
   p |-> fnt_offset + entry.offset, next_id |-> entry.next_id, rec |-> rec]

\* nitro_build_tree up to its call of nitro_build_subdir
BuildTree ==
  /\ pc = "loaded"
  /\ root' = 1
  /\ tree' = << nitro_init_dir(<< >>, 1, NITRO_ROOT) >>
  /\ stack' = << Frame(1, ReadFntEntry(fnt_offset), 0) >>
  /\ pc' = "build"
  /\ UNCHANGED << nds_file, hdr, fuse >>

\* nitro_build_tree: malloc of the root returns NULL
BuildTreeNoMem ==
  /\ pc = "loaded"
  /\ pc' = "failed"
  /\ UNCHANGED << nds_file, hdr, root, tree, stack, fuse >>

Top == stack[Len(stack)]
TopLen == Byte(Top.p) % 128
TopIsDir == Byte(Top.p) >= 128

\* the highest address the next loop iteration of the innermost activation reads
Touch ==
  IF Byte(Top.p) = 0 THEN Top.p
  ELSE IF TopIsDir
    THEN Max(Top.p + TopLen + 2,
             FntEntryAddr(Read16(Top.p + TopLen + 1)) + FntEntrySize - 1)
    ELSE Max(Top.p + TopLen, FatEntryAddr(Top.next_id) + FatEntrySize - 1)

\* one iteration of the while loop, file branch
SubdirFile ==
  /\ pc = "build"
  /\ Byte(Top.p) # 0 /\ ~TopIsDir
  /\ LET f == Top
         len == TopLen
         n == Len(tree) + 1
         fat_entry == ReadFatEntry(FatEntryAddr(f.next_id))
         next == nitro_init_file(Bytes(f.p + 1, len), f.dir, fat_entry, f.next_id)
         linked == SetLink(Append(tree, next), f.last, n)
     IN /\ tree' = [linked EXCEPT ![f.dir] = FileStats(linked[f.dir], len)]
        /\ stack' = [stack EXCEPT ![Len(stack)] =
                       [f EXCEPT !.last = [e |-> n, f |-> "next"],
                                 !.next_id = U16(f.next_id + 1),
                                 !.p = f.p + len + 1]]
  /\ UNCHANGED << nds_file, pc, hdr, root, fuse >>

\* one iteration of the while loop, directory branch, up to the recursive call
SubdirDir ==
  /\ pc = "build"
  /\ Byte(Top.p) # 0 /\ TopIsDir
  /\ Len(stack) < MaxDepth
  /\ LET f == Top
         len == TopLen
         n == Len(tree) + 1
         id == Read16(f.p + len + 1)
         next == nitro_init_dir(Bytes(f.p + 1, len), f.dir, id)
         linked == SetLink(Append(tree, next), f.last, n)
         entry == ReadFntEntry(FntEntryAddr(id))
     IN /\ tree' = [linked EXCEPT ![f.dir] = DirStats(linked[f.dir], len)]
        /\ stack' = Append([stack EXCEPT ![Len(stack)].last = [e |-> n, f |-> "next"]],
                           Frame(n, entry, id % (NITRO_DIRMASK + 1)))
  /\ UNCHANGED << nds_file, pc, hdr, root, fuse >>

\* SubdirReturn with one file counter for the whole tree: the caller goes on from
\* the ID the directory it recursed on reached
SubdirReturn_SharedCounter ==
  /\ pc = "build"
  /\ Byte(stack[Len(stack)].p) = 0
  /\ IF Len(stack) = 1
     THEN /\ stack' = << >>
          /\ pc' = "mounted"
     ELSE LET c == stack[Len(stack) - 1]
              len == Byte(c.p) % 128
          IN /\ stack' = [SubSeq(stack, 1, Len(stack) - 1)
                            EXCEPT ![Len(stack) - 1] =
                              [c EXCEPT !.p = c.p + 2 + len + 1,
                                        !.next_id = stack[Len(stack)].next_id]]
             /\ pc' = pc
  /\ UNCHANGED << nds_file, hdr, root, tree, fuse >>

\* the terminating byte: return 0, and the caller steps over the subentry it recursed on
SubdirReturn ==
  /\ pc = "build"
  /\ Byte(Top.p) = 0
  /\ IF Len(stack) = 1
     THEN /\ stack' = << >>
          /\ pc' = "mounted"
     ELSE LET c == stack[Len(stack) - 1]
              len == Byte(c.p) % 128
          IN /\ stack' = [SubSeq(stack, 1, Len(stack) - 1)
                            EXCEPT ![Len(stack) - 1].p = c.p + 2 + len + 1]
             /\ pc' = pc
  /\ UNCHANGED << nds_file, hdr, root, tree, fuse >>

\* malloc returns NULL: every activation returns -1, nitro_build_tree frees the tree
SubdirNoMem ==
  /\ pc = "build"
  /\ Byte(Top.p) # 0
  /\ pc' = "failed"
  /\ stack' = << >>
  /\ tree' = << >>
  /\ UNCHANGED << nds_file, hdr, root, fuse >>

\* a read past the end of the mapping faults
SubdirFault ==
  /\ pc = "build"
  /\ Touch >= nds_size
  /\ pc' = "segfault"
  /\ UNCHANGED << nds_file, hdr, root, tree, stack, fuse >>

\* the recursion exhausts the stack
SubdirOverflow ==
  /\ pc = "build"
  /\ Byte(Top.p) # 0 /\ TopIsDir
  /\ Len(stack) >= MaxDepth
  /\ pc' = "overflow"
  /\ UNCHANGED << nds_file, hdr, root, tree, stack, fuse >>

NextBuild ==
  \/ Main
  \/ BuildTree
  \/ BuildTreeNoMem
  \/ SubdirFile
  \/ SubdirDir
  \/ SubdirReturn
  \/ SubdirNoMem
  \/ SubdirFault
  \/ SubdirOverflow

InitBuild == InitOn(ImageDescs)
SpecBuild == InitBuild /\ [][NextBuild]_vars

\* ------------------------------------------------------------ paths

Slash == << 47 >>
Dot == << 46 >>
DotDot == << 46, 46 >>

\* the C string an entry's name holds: its bytes up to the first NUL
RECURSIVE CStr(_)
CStr(n) == IF n = << >> \/ Head(n) = 0 THEN << >> ELSE << Head(n) >> \o CStr(Tail(n))

\* strchr(path + i - 1, '/'): the index of the first '/' at or after index i, 0 for NULL
RECURSIVE StrChr(_, _)
StrChr(path, i) ==
  IF i > Len(path) THEN 0
  ELSE IF path[i] = Slash[1] THEN i
  ELSE StrChr(path, i + 1)

\* the first entry of the sibling list starting at entry whose name is nm, 0 for none
RECURSIVE FindChild(_, _, _)
FindChild(t, entry, nm) ==
  IF entry = 0 THEN 0
  ELSE IF CStr(t[entry].name) = nm THEN entry
  ELSE FindChild(t, t[entry].next, nm)

\* the directory the loop over an intermediate component leaves in dir
Descend(t, dir, comp) ==
  LET m == FindChild(t, t[dir].children, comp)
  IN IF m # 0 THEN m ELSE dir

\* the loop over the intermediate components, then the final component
RECURSIVE Walk(_, _, _, _)
Walk(t, dir, path, i) ==
  LET p == StrChr(path, i)
  IN IF p = 0 THEN FindChild(t, t[dir].children, SubSeq(path, i, Len(path)))
     ELSE Walk(t, Descend(t, dir, SubSeq(path, i, p - 1)), path, p + 1)

nitro_traverse_path(path) ==
  IF path = Slash THEN root ELSE Walk(tree, root, path, 2)

nitro_fill_stat(entry) ==
  [st_ino |-> BitOr(tree[tree[entry].parent].id * 256, tree[entry].id),
   st_nlink |-> tree[entry].links,
   st_size |-> tree[entry].size,
   st_blocks |-> (tree[entry].size + 4095) \div 4096,
   st_mode |-> IF tree[entry].type = NITRO_DIR_TYPE THEN "dr-xr-xr-x" ELSE "-r--r--r--"]

\* the paths of the requests: "/", one, two and three components
Path1(x) == Slash \o x
Path2(x, y) == Slash \o x \o Slash \o y
Path3(x, y, z) == Slash \o x \o Slash \o y \o Slash \o z
Paths ==
  { Slash,
    Path1(NameA), Path1(NameB), Path1(NameC), Path1(NameAB),
    Path2(NameA, NameB), Path2(NameA, NameC), Path2(NameB, NameC), Path2(NameC, NameA),
    Path3(NameA, NameB, NameC), Path3(NameA, NameB, NameA), Path3(NameA, NameC, NameC),
    Path3(NameB, NameA, NameC) }

\* ------------------------------------------------------------ requests

Getattr(path) ==
  /\ pc = "mounted"
  /\ LET entry == nitro_traverse_path(path)
     IN last' = IF entry = 0
                THEN [op |-> "getattr", path |-> path, ret |-> -ENOENT]
                ELSE [op |-> "getattr", path |-> path, ret |-> 0,
                      entry |-> entry, st |-> nitro_fill_stat(entry)]
  /\ UNCHANGED << nds_file, pc, hdr, root, tree, stack, fh, dfh, dir_off, listing, dir_done >>

Opendir(path) ==
  /\ pc = "mounted"
  /\ LET entry == nitro_traverse_path(path)
     IN IF entry = 0
        THEN /\ last' = [op |-> "opendir", path |-> path, ret |-> -ENOENT]
             /\ UNCHANGED << dfh, dir_off, listing, dir_done >>
        ELSE IF tree[entry].type # NITRO_DIR_TYPE
        THEN /\ last' = [op |-> "opendir", path |-> path, ret |-> -EISDIR]
             /\ UNCHANGED << dfh, dir_off, listing, dir_done >>
        ELSE /\ last' = [op |-> "opendir", path |-> path, ret |-> 0]
             /\ dfh' = entry
             /\ dir_off' = 0
             /\ listing' = << >>
             /\ dir_done' = FALSE
  /\ UNCHANGED << nds_file, pc, hdr, root, tree, stack, fh >>

\* the filler calls of the loop over the children, from child (at position off) on,
\* while the filler accepts: [name, st, off], off the offset passed with the entry
RECURSIVE ScanChildren(_, _, _)
ScanChildren(child, off, offset) ==
  IF child = 0 THEN << >>
  ELSE IF off = offset
    THEN << [name |-> CStr(tree[child].name), st |-> nitro_fill_stat(child),
             off |-> offset + 1] >>
           \o ScanChildren(tree[child].next, off + 1, offset + 1)
    ELSE ScanChildren(tree[child].next, off + 1, offset)

\* ReaddirOffers with the first child at offset 3
ReaddirOffers_OffByOne(entry, offset) ==
  LET dot == IF offset = 0
             THEN << [name |-> Dot, st |-> nitro_fill_stat(entry), off |-> 1] >>
             ELSE << >>
      offset1 == IF offset = 0 THEN 1 ELSE offset
      dotdot == IF offset1 = 1
                THEN << [name |-> DotDot, st |-> nitro_fill_stat(tree[entry].parent),
                         off |-> 2] >>
                ELSE << >>
      offset2 == IF offset1 = 1 THEN 2 ELSE offset1
  IN dot \o dotdot \o ScanChildren(tree[entry].children, 3, offset2)

\* the filler calls of nitro_readdir(entry, offset) while the filler accepts
ReaddirOffers(entry, offset) ==
  LET dot == IF offset = 0
             THEN << [name |-> Dot, st |-> nitro_fill_stat(entry), off |-> 1] >>
             ELSE << >>
      offset1 == IF offset = 0 THEN 1 ELSE offset
      dotdot == IF offset1 = 1
                THEN << [name |-> DotDot, st |-> nitro_fill_stat(tree[entry].parent),
                         off |-> 2] >>
                ELSE << >>
      offset2 == IF offset1 = 1 THEN 2 ELSE offset1
  IN dot \o dotdot \o ScanChildren(tree[entry].children, 2, offset2)

\* nitro_readdir with a filler that accepts cap entries and then reports the buffer
\* full; the next call passes the offset handed out with the last accepted entry
Readdir(cap) ==
  /\ pc = "mounted"
  /\ dfh # 0
  /\ LET offers == ReaddirOffers(dfh, dir_off)
         n == Min(cap, Len(offers))
     IN /\ listing' = listing \o [i \in 1..n |-> offers[i].name]
        /\ dir_off' = IF n = 0 THEN dir_off ELSE offers[n].off
        /\ dir_done' = (dir_done \/ cap >= Len(offers))
        /\ last' = [op |-> "readdir", offset |-> dir_off, ret |-> 0, filled |-> n]
  /\ UNCHANGED << nds_file, pc, hdr, root, tree, stack, fh, dfh >>

OpenFlags == [creat : BOOLEAN, acc : { "O_RDONLY", "O_WRONLY", "O_RDWR" }]

\* what nitro_open returns, and the entry it leaves in fi->fh (0: fi->fh is not set)
OpenResult(entry, flags) ==
  IF entry = 0
  THEN [ret |-> IF flags.creat THEN -EROFS ELSE -ENOENT, fh |-> 0]
  ELSE IF flags.acc = "O_RDWR" \/ flags.acc = "O_WRONLY"
  THEN [ret |-> -EACCES, fh |-> 0]
  ELSE [ret |-> 0, fh |-> entry]

\* Open counting the open in the entry's link count
Open_CountsOpen(path, flags) ==
  /\ pc = "mounted"
  /\ LET entry == nitro_traverse_path(path)
         r == OpenResult(entry, flags)
     IN /\ entry # 0 => tree[entry].type = NITRO_FILE_TYPE
        /\ last' = [op |-> "open", path |-> path, flags |-> flags, ret |-> r.ret]
        /\ fh' = IF r.fh # 0 THEN r.fh ELSE fh
        /\ tree' = IF r.fh # 0
                   THEN [tree EXCEPT ![r.fh].links = U32(tree[r.fh].links + 1)]
                   ELSE tree
  /\ UNCHANGED << nds_file, pc, hdr, root, stack, dfh, dir_off, listing, dir_done >>

\* The kernel sends the open of a directory to opendir: nitro_open sees the paths of
\* files and the paths that do not resolve.
Open(path, flags) ==
  /\ pc = "mounted"
  /\ LET entry == nitro_traverse_path(path)
         r == OpenResult(entry, flags)
     IN /\ entry # 0 => tree[entry].type = NITRO_FILE_TYPE
        /\ last' = [op |-> "open", path |-> path, flags |-> flags, ret |-> r.ret]
        /\ fh' = IF r.fh # 0 THEN r.fh ELSE fh
  /\ UNCHANGED << nds_file, pc, hdr, root, tree, stack, dfh, dir_off, listing, dir_done >>

\* ReadSize truncating to the file's size, not to what is left of it
ReadSize_ToFileSize(entry_size, offset, size) ==
  IF offset + size > entry_size THEN entry_size ELSE size

\* the size nitro_read copies: the request's, truncated at end-of-file
ReadSize(entry_size, offset, size) ==
  IF offset + size > entry_size THEN entry_size - offset ELSE size

\* the address nitro_read copies from
ReadFrom(fat_entry, offset) == fat_entry.start_offset

\* the highest address nitro_read(fh, size, offset) reads, -1 when it returns before
\* it reads the mapping
ReadTouch(size, offset) ==
  IF offset < 0 \/ offset >= tree[fh].size THEN -1
  ELSE LET a == FatEntryAddr(tree[fh].id)
           n == ReadSize(tree[fh].size, offset, size)
       IN Max(a + FatEntrySize - 1, ReadFrom(ReadFatEntry(a), offset) + n - 1)

Read(size, offset) ==
  /\ pc = "mounted"
  /\ fh # 0
  /\ LET entry == tree[fh]
         req == [op |-> "read", entry |-> fh, size |-> size, offset |-> offset]
     IN IF offset < 0
        THEN last' = req @@ [ret |-> -EINVAL, buf |-> << >>]
        ELSE IF offset >= entry.size
        THEN last' = req @@ [ret |-> 0, buf |-> << >>]
        ELSE LET fat_entry == ReadFatEntry(FatEntryAddr(entry.id))
                 n == ReadSize(entry.size, offset, size)
             IN last' = req @@ [ret |-> n, buf |-> Bytes(ReadFrom(fat_entry, offset), n)]
  /\ UNCHANGED << nds_file, pc, hdr, root, tree, stack, fh, dfh, dir_off, listing, dir_done >>

\* a read past the end of the mapping faults
ReadFault(size, offset) ==
  /\ pc = "mounted"
  /\ fh # 0
  /\ ReadTouch(size, offset) >= nds_size
  /\ pc' = "segfault"
  /\ last' = [op |-> "read", entry |-> fh, size |-> size, offset |-> offset]
  /\ UNCHANGED << nds_file, hdr, root, tree, stack, fh, dfh, dir_off, listing, dir_done >>

\* nitro_destroy: unmount frees the whole tree
Destroy ==
  /\ pc = "mounted"
  /\ pc' = "unmounted"
  /\ tree' = << >>
  /\ UNCHANGED << nds_file, hdr, root, stack, fuse >>

ReadSizes == 0..MaxReadLen
ReadOffsets == (-1)..MaxReadOff
Caps == 0..MaxFill

\* ------------------------------------------------------------ specifications

\* the images the request specifications mount
TreeDescs ==
  { MkDesc(r, s1, << F(NameC) >>, 2, 3, 5) :
      r \in RootStreams,
      s1 \in { << F(NameC) >>, << F(NameC), D(NameB, DirId2), F(NameA) >> } }

FaultDescs ==
  { MkDesc(<< D(NameA, NITRO_ROOT) >>, << >>, << >>, 0, 3, 5),
    MkDesc(<< D(NameA, DirIdPastMap), F(NameC) >>, << >>, << >>, 0, 3, 5) }
    \cup BadFatDescs

RequestDescs == TreeDescs \cup FaultDescs

InitRequests == InitOn(RequestDescs)

NextRead ==
  \/ NextBuild
  \/ \E path \in Paths, flags \in OpenFlags : Open(path, flags)
  \/ \E size \in ReadSizes, offset \in ReadOffsets : Read(size, offset)
  \/ \E size \in ReadSizes, offset \in ReadOffsets : ReadFault(size, offset)

SpecRead == InitRequests /\ [][NextRead]_vars

NextPath ==
  \/ NextBuild
  \/ \E path \in Paths : Getattr(path)

SpecPath == InitRequests /\ [][NextPath]_vars

NextDir ==
  \/ NextBuild
  \/ \E path \in Paths : Opendir(path)
  \/ \E cap \in Caps : Readdir(cap)

SpecDir == InitRequests /\ [][NextDir]_vars

Init == InitOn(FaultDescs \cup
          { MkDesc(<< F(NameB), D(NameA, DirId1), F(NameC) >>, << F(NameC) >>,
                   << F(NameC) >>, 2, 3, 5) })

Next ==
  \/ NextBuild
  \/ \E path \in Paths : Getattr(path)
  \/ \E path \in Paths : Opendir(path)
  \/ \E cap \in Caps : Readdir(cap)
  \/ \E path \in Paths, flags \in OpenFlags : Open(path, flags)
  \/ \E size \in ReadSizes, offset \in ReadOffsets : Read(size, offset)
  \/ \E size \in ReadSizes, offset \in ReadOffsets : ReadFault(size, offset)
  \/ Destroy

Spec == Init /\ [][Next]_vars

\* ------------------------------------------------------------ claims

Entries == 1..Len(tree)
IsDir(e) == tree[e].type = NITRO_DIR_TYPE
IsFile(e) == tree[e].type = NITRO_FILE_TYPE

\* the entries of the sibling list starting at e, in list order
RECURSIVE SiblingList(_)
SiblingList(e) == IF e = 0 THEN << >> ELSE << e >> \o SiblingList(tree[e].next)

ChildList(dir) == SiblingList(tree[dir].children)
FileChildren(dir) == SelectSeq(ChildList(dir), IsFile)
DirChildren(dir) == SelectSeq(ChildList(dir), IsDir)

\* the allocation record of file ID id, as the image holds it
AllocRecord(id) == ReadFatEntry(FatEntryAddr(id))

\* C1: a read of a file at 0 <= offset < size returns the image's bytes at
\* [start + offset, start + offset + n), n = min(length, size - offset): the data
\* begins at start + offset, not at start.
C1_ReadAtOffset ==
  (pc = "mounted" /\ last.op = "read" /\ IsFile(last.entry)
     /\ 0 <= last.offset /\ last.offset < tree[last.entry].size)
  => last.buf = Bytes(AllocRecord(tree[last.entry].id).start_offset + last.offset,
                      Min(last.size, tree[last.entry].size - last.offset))

\* C2: a read with offset < 0 fails with -EINVAL; with offset >= size it returns 0
\* bytes without error; otherwise it returns exactly min(length, size - offset)
\* bytes, so a read of (0, size) returns exactly size bytes.
C2_ReadCount ==
  (pc = "mounted" /\ last.op = "read" /\ IsFile(last.entry))
  => LET fsize == tree[last.entry].size
     IN /\ last.offset < 0 => last.ret = -EINVAL
        /\ (last.offset >= 0 /\ last.offset >= fsize)
             => (last.ret = 0 /\ last.buf = << >>)
        /\ (last.offset >= 0 /\ last.offset < fsize)
             => (/\ last.ret = Min(last.size, fsize - last.offset)
                 /\ Len(last.buf) = last.ret)
        /\ (last.offset = 0 /\ last.size = fsize) => last.ret = fsize

\* a request that runs past end-of-file from a positive offset was truncated
C2_Witness ==
  /\ pc = "mounted" /\ last.op = "read" /\ IsFile(last.entry)
  /\ last.offset > 0
  /\ last.offset + last.size > tree[last.entry].size
  /\ last.ret = tree[last.entry].size - last.offset
  /\ last.ret > 0

\* whether some non-final component of path (from index i on) has no exactly-named
\* child in the directory reached so far
RECURSIVE MissingComponent(_, _, _)
MissingComponent(dir, path, i) ==
  LET p == StrChr(path, i)
  IN IF p = 0 THEN FALSE
     ELSE LET m == FindChild(tree, tree[dir].children, SubSeq(path, i, p - 1))
          IN IF m = 0 THEN TRUE ELSE MissingComponent(m, path, p + 1)

\* C3: if a non-final component of the path has no exactly-named child in the
\* directory reached so far, the path resolves to nothing (getattr: -ENOENT),
\* even when the last directory reached has a child named like the final component.
C3_MissingComponentNotFound ==
  (pc = "mounted" /\ last.op = "getattr" /\ last.path # Slash
     /\ MissingComponent(root, last.path, 2))
  => last.ret = -ENOENT

\* C4: the build terminates on every image; a directory reachable from itself is
\* refused, not expanded again: no main record is under expansion twice on the
\* current path, and the recursion never exhausts the stack.
C4_BuildTerminates ==
  /\ pc # "overflow"
  /\ \A i, j \in 1..Len(stack) : i # j => stack[i].rec # stack[j].rec

\* whether the main record with this index lies wholly inside the name table
RecordInTable(rec) == (rec + 1) * FntEntrySize <= fnt_length

\* C5: a subdirectory whose directory ID addresses a main record not wholly inside
\* the name table fails the build: no main record is read from outside the name
\* table, and no tree holding such a directory is mounted.
C5_MainRecordInTable ==
  /\ \A i \in 1..Len(stack) : RecordInTable(stack[i].rec)
  /\ pc = "mounted"
       => \A e \in Entries : IsDir(e) => RecordInTable(tree[e].id % (NITRO_DIRMASK + 1))

\* the names a directory's stream declares, in declared order, in the image's description
DeclaredNames(rec) ==
  LET st == DescStreams(nds_file)[rec + 1]
  IN [i \in 1..Len(st) |-> st[i].name]

IsPrefix(s, t) == Len(s) <= Len(t) /\ s = SubSeq(t, 1, Len(s))

\* the main record index of a directory
RecOf(dir) == tree[dir].id % (NITRO_DIRMASK + 1)

\* the directories the image's description declares
Declared(e) == IsDir(e) /\ RecOf(e) < NRec

\* C6: the listing of a directory is ".", "..", then its children in the order its
\* stream declares them; whenever the filler reports full and the next readdir
\* resumes at the offset handed out with the last accepted entry, every entry is
\* delivered exactly once and in that order.
C6_ListingOrder ==
  (pc = "mounted" /\ dfh # 0 /\ Declared(dfh))
  => LET want == << Dot, DotDot >> \o DeclaredNames(RecOf(dfh))
     IN /\ IsPrefix(listing, want)
        /\ dir_done => listing = want
        /\ dir_off = Len(listing)

\* the listing [b, a, c] completed by a call that resumed among the children
C6_Witness ==
  /\ pc = "mounted" /\ dfh # 0 /\ Declared(dfh)
  /\ dir_done
  /\ listing = << Dot, DotDot, NameB, NameA, NameC >>
  /\ last.op = "readdir" /\ last.offset = 3 /\ last.filled = 2

\* the first sequential file ID in the main record of directory dir
FirstFileId(dir) == ReadFntEntry(FntEntryAddr(tree[dir].id)).next_id

\* C7: in a built tree the k-th file subentry of a directory (k from 0, over the
\* directory's own file subentries only) has id f + k, f the first sequential file
\* ID of the directory's main record, and its size is end - start of allocation
\* record f + k.  For a directory the image's description declares, f and the
\* record are those the description gives.
C7_FileIds ==
  pc = "mounted"
  => \A dir \in Entries : IsDir(dir)
       => LET files == FileChildren(dir)
          IN /\ \A k \in 1..Len(files) :
                  LET id == FirstFileId(dir) + (k - 1)
                  IN /\ tree[files[k]].id = id
                     /\ tree[files[k]].size
                          = AllocRecord(id).end_offset - AllocRecord(id).start_offset
             /\ Declared(dir)
                  => \A k \in 1..Len(files) :
                       LET id == DescNextIds(nds_file)[RecOf(dir) + 1] + (k - 1)
                       IN /\ tree[files[k]].id = id
                          /\ tree[files[k]].size
                               = FatEnd(nds_file, id) - FatStart(nds_file, id)

\* a directory numbered from a non-zero ID with a file, a subdirectory holding
\* files of its own, and a file after it
C7_Witness ==
  /\ pc = "mounted"
  /\ \E dir \in Entries :
       /\ IsDir(dir) /\ FirstFileId(dir) > 0
       /\ Len(FileChildren(dir)) >= 2
       /\ \E i, j, l \in 1..Len(ChildList(dir)) :
            /\ i < j /\ j < l
            /\ IsFile(ChildList(dir)[i]) /\ IsFile(ChildList(dir)[l])
            /\ IsDir(ChildList(dir)[j])
            /\ Len(FileChildren(ChildList(dir)[j])) >= 2
            /\ tree[ChildList(dir)[l]].size > 0

\* the bytes a child's subentry takes in its directory's stream
EncodedLength(e) == Len(tree[e].name) + (IF IsDir(e) THEN 3 ELSE 1)

\* C8: in a built tree the size of a directory is the sum of the encoded subentry
\* lengths of its direct children (name length + 1 for a file, + 3 for a
\* subdirectory); grandchildren add nothing and an empty directory has size 0.
\* For a directory the image's description declares, that sum is the length of
\* its encoded stream without the terminating byte.
C8_DirSize ==
  pc = "mounted"
  => \A dir \in Entries : IsDir(dir)
       => /\ tree[dir].size
               = SumSeq([i \in 1..Len(ChildList(dir)) |-> EncodedLength(ChildList(dir)[i])])
          /\ tree[dir].children = 0 => tree[dir].size = 0
          /\ Declared(dir)
               => tree[dir].size
                    = Len(EncStream(DescStreams(nds_file)[RecOf(dir) + 1])) - 1

\* a directory with a file, a non-empty subdirectory, and an empty directory beside
C8_Witness ==
  /\ pc = "mounted"
  /\ \E dir, sub \in Entries :
       /\ IsDir(dir) /\ IsDir(sub) /\ tree[sub].parent = dir /\ sub # dir
       /\ tree[sub].size > 0
       /\ Len(FileChildren(dir)) >= 1
       /\ tree[dir].size > 0
  /\ \E e \in Entries : IsDir(e) /\ tree[e].size = 0 /\ tree[e].children = 0

\* C9: from the end of the build until unmount no request changes the tree: every
\* step that is not the unmount leaves the entries and the root as they are.
C9_RequestsKeepTree ==
  [][(pc = "mounted" /\ pc' # "unmounted") => (tree' = tree /\ root' = root)]_vars

\* an open directory, an open file, and a request refused for its write mode
C9_Witness ==
  /\ pc = "mounted" /\ fh # 0 /\ dfh # 0 /\ listing # << >>
  /\ last.op = "open" /\ last.ret = -EACCES

\* C10: in a built tree no two distinct entries have the same node-identity value
\* (st_ino), whether files or directories.
C10_InoUnique ==
  pc = "mounted"
  => \A e1, e2 \in Entries :
       e1 # e2 => nitro_fill_stat(e1).st_ino # nitro_fill_stat(e2).st_ino

====
